---- MODULE Spec2Model ----
(***************************************************************************)
(* A model of src/main.py: one run of the feed summarizer.                 *)
(*                                                                         *)
(* Text is a sequence of one-character strings, so that strip, split,      *)
(* join and concatenation are computed as Python computes them.  A file of *)
(* feed URLs is a sequence of lines.  A Python value that may be None is a *)
(* record [none, raised, val].                                             *)
(***************************************************************************)
EXTENDS Integers, Sequences, FiniteSets, TLC

\* ------------------------------------------------------------------ bounds
\* Lines of the feeds file at the start of a run.
MaxFeeds == 2
\* Entries a fetched feed delivers.
MaxEntries == 2
\* Largest value configured for num_articles.
MaxNumArticles == 2
\* Longest narration entry drawn for the stripping of markdown.
MaxTextLen == 4
\* Runs of the program made one after the other.
MaxRuns == 2

\* ------------------------------------------------------------------ Python values
\* What a call of a function gives: None, a value, or an exception that leaves it.
PyNone == [none |-> TRUE, raised |-> FALSE, val |-> <<>>]
Some(v) == [none |-> FALSE, raised |-> FALSE, val |-> v]
Raised == [none |-> TRUE, raised |-> TRUE, val |-> <<>>]
\* Python truth of None, a str or a list.
Truthy(o) == ~o.none /\ o.val # <<>>

Min(S) == CHOOSE x \in S : \A y \in S : x <= y
Max(S) == CHOOSE x \in S : \A y \in S : x >= y

InSeq(x, s) == \E k \in 1..Len(s) : s[k] = x

\* ------------------------------------------------------------------ text
IsSpace(c) == c \in {" ", "\n"}

\* str.strip()
Strip(s) ==
    LET keep == {k \in 1..Len(s) : ~IsSpace(s[k])}
    IN  IF keep = {} THEN <<>> ELSE SubSeq(s, Min(keep), Max(keep))

\* str.split('\n')
RECURSIVE SplitLines(_)
SplitLines(s) ==
    LET nl == {k \in 1..Len(s) : s[k] = "\n"}
    IN  IF nl = {} THEN <<s>>
        ELSE <<SubSeq(s, 1, Min(nl) - 1)>> \o SplitLines(SubSeq(s, Min(nl) + 1, Len(s)))

\* sep.join(parts)
RECURSIVE Join(_, _)
Join(sep, parts) ==
    IF parts = <<>> THEN <<>>
    ELSE IF Len(parts) = 1 THEN parts[1]
    ELSE parts[1] \o sep \o Join(sep, Tail(parts))

\* seq[:n]
SliceTo(s, n) ==
    LET k == IF n >= 0 THEN (IF n < Len(s) THEN n ELSE Len(s))
                       ELSE (IF Len(s) + n > 0 THEN Len(s) + n ELSE 0)
    IN  SubSeq(s, 1, k)

NL == <<"\n">>
\* 'Untitled', 'No URL available'
Untitled == <<"U", "n", "t", "i", "t", "l", "e", "d">>
NoUrl ==
    <<"N", "o", " ", "U", "R", "L", " ", "a", "v", "a", "i", "l", "a", "b", "l", "e">>
\* strftime("%A, %B %d, %Y") and strftime('%Y-%m-%d') of the day of the run
FormattedDate == <<"D", "a", "y">>
FileDate == <<"Y", "M", "D">>
\* f"# News for {formatted_date}\n\n"
Header == <<"#", " ", "N", "e", "w", "s", " ", "f", "o", "r", " ">> \o FormattedDate \o NL \o NL
\* basename of f"{date}_feed-summaries.mp3"
AudioName ==
    FileDate \o <<"_", "f", "e", "e", "d", "-", "s", "u", "m", "m", "a", "r", "i", "e", "s", ".", "m", "p", "3">>
\* f"[Listen to the audio summary]({os.path.basename(audio_file)})"
AudioLink ==
    <<"[", "L", "i", "s", "t", "e", "n", " ", "t", "o", " ", "t", "h", "e", " ", "a", "u", "d", "i", "o", " ", "s", "u", "m", "m", "a", "r", "y", "]", "(">>
        \o AudioName \o <<")">>

\* ------------------------------------------------------------------ feed entries
\* An entry is a function from the keys it has to their text ('content' holds the
\* value of the first content block).
Has(e, k) == k \in DOMAIN e
Get(e, k, default) == IF Has(e, k) THEN e[k] ELSE default

\* content = (entry.get('summary') or entry.get('description') or
\*            entry.get('content', [{}])[0].get('value', '') or entry.get('title', ''))
\* Python's `or` yields its first operand that is truthy: a non-empty string,
\* a whitespace-only one included.
EntryContent(e) ==
    IF Get(e, "summary", <<>>) # <<>> THEN e["summary"]
    ELSE IF Get(e, "description", <<>>) # <<>> THEN e["description"]
    ELSE IF Get(e, "content", <<>>) # <<>> THEN e["content"]
    ELSE Get(e, "title", <<>>)

MakeArticle(e) ==
    [title |-> Get(e, "title", Untitled),
     link |-> Get(e, "link", NoUrl),
     content |-> EntryContent(e)]

\* The selected content tested without strip().
HasContent_unstripped(e) == EntryContent(e) # <<>>

\* if content.strip():
HasContent(e) == Strip(EntryContent(e)) # <<>>

\* valid_entries after the loop over feed.entries[:num_articles]
RECURSIVE ValidEntries(_)
ValidEntries(es) ==
    IF es = <<>> THEN <<>>
    ELSE (IF HasContent(Head(es)) THEN <<MakeArticle(Head(es))>> ELSE <<>>)
             \o ValidEntries(Tail(es))

\* Without the last handler, `except Exception`.
fetch_no_catch_all(raw, num) ==
    IF raw.kind = "Exception" THEN Raised
    ELSE IF raw.kind # "parsed" THEN PyNone
    ELSE IF raw.bozo = 1 THEN PyNone
    ELSE LET valid_entries == ValidEntries(SliceTo(raw.entries, num))
         IN  IF valid_entries # <<>> THEN Some(valid_entries) ELSE PyNone

\* The slice taken one entry short.
fetch_slice_short(raw, num) ==
    IF raw.kind # "parsed" THEN PyNone
    ELSE IF raw.bozo = 1 THEN PyNone
    ELSE LET valid_entries == ValidEntries(SliceTo(raw.entries, num - 1))
         IN  IF valid_entries # <<>> THEN Some(valid_entries) ELSE PyNone

\* The bozo flag not looked at.
fetch_ignoring_bozo(raw, num) ==
    IF raw.kind # "parsed" THEN PyNone
    ELSE LET valid_entries == ValidEntries(SliceTo(raw.entries, num))
         IN  IF valid_entries # <<>> THEN Some(valid_entries) ELSE PyNone

\* The entries filtered first and cut to num articles afterwards.
fetch_slice_after_filter(raw, num) ==
    IF raw.kind # "parsed" THEN PyNone
    ELSE IF raw.bozo = 1 THEN PyNone
    ELSE LET valid_entries == SliceTo(ValidEntries(raw.entries), num)
         IN  IF valid_entries # <<>> THEN Some(valid_entries) ELSE PyNone

\* What requests.get + raise_for_status + feedparser.parse deliver: an exception
\* (kind "Timeout", "RequestException", "Exception") or a parsed feed (kind
\* "parsed") with its bozo flag and entries.
fetch_and_validate_feed(raw, num) ==
    IF raw.kind # "parsed" THEN PyNone
    ELSE IF raw.bozo = 1 THEN PyNone
    ELSE LET valid_entries == ValidEntries(SliceTo(raw.entries, num))
         IN  IF valid_entries # <<>> THEN Some(valid_entries) ELSE PyNone

\* The log lines of fetch_and_validate_feed.
FetchLog(raw, url) ==
    IF raw.kind = "Timeout" THEN <<[level |-> "info", msg |-> "Timeout occurred while fetching feed", arg |-> url]>>
    ELSE IF raw.kind = "RequestException" THEN <<[level |-> "warning", msg |-> "Error fetching feed", arg |-> url]>>
    ELSE IF raw.kind = "Exception" THEN <<[level |-> "warning", msg |-> "Unexpected error fetching feed", arg |-> url]>>
    ELSE IF raw.bozo = 1 THEN <<[level |-> "warning", msg |-> "Error parsing feed", arg |-> url]>>
    ELSE <<>>

\* ------------------------------------------------------------------ summarizer
\* summary_lines = [line.strip() for line in summary.split('\n') if line.strip()]
RECURSIVE StripLines(_)
StripLines(lines) ==
    IF lines = <<>> THEN <<>>
    ELSE (IF Strip(Head(lines)) # <<>> THEN <<Strip(Head(lines))>> ELSE <<>>)
             \o StripLines(Tail(lines))

FormatSummary(text) == Join(NL, StripLines(SplitLines(text)))

\* The response returned as it came.
summarize_unformatted(article, out) ==
    IF out.kind = "ok" THEN Some(out.text) ELSE PyNone

\* Without the last handler, `except Exception`.
summarize_no_catch_all(article, out) ==
    IF out.kind = "ok" THEN Some(FormatSummary(out.text))
    ELSE IF out.kind = "ResponseError" THEN PyNone
    ELSE Raised

\* The chat call answers with a text (kind "ok") or raises (kind "ResponseError",
\* "Exception"); every exception is caught.
summarize_article(article, out) ==
    IF out.kind = "ok" THEN Some(FormatSummary(out.text)) ELSE PyNone

SummarizeLog(out) ==
    IF out.kind = "ResponseError" THEN <<[level |-> "error", msg |-> "Ollama API error", arg |-> <<>>]>>
    ELSE IF out.kind = "Exception" THEN <<[level |-> "error", msg |-> "Unexpected error during summarization", arg |-> <<>>]>>
    ELSE <<>>

\* f"## {article['title']}\n\n{summary}\n\n{article['link']}\n\n"
SummaryBlock(article, summary) ==
    <<"#", "#", " ">> \o article.title \o NL \o NL \o summary \o NL \o NL
        \o article.link \o NL \o NL

\* f"{article['title']}. {summary}"
TtsEntry(article, summary) == article.title \o <<".", " ">> \o summary

RECURSIVE Reverse(_)
Reverse(s) == IF s = <<>> THEN <<>> ELSE Reverse(Tail(s)) \o <<Head(s)>>

\* The blocks written last first.
DigestText_reversed(sums) == Header \o Join(NL, Reverse(sums))

\* file.write(header); file.write("\n".join(summaries))
DigestText(sums) == Header \o Join(NL, sums)

\* ------------------------------------------------------------------ feed lists
\* The lines stripped, the blank ones kept.
RECURSIVE ReadLines_keep_blank(_)
ReadLines_keep_blank(lines) ==
    IF lines = <<>> THEN <<>>
    ELSE <<Strip(Head(lines))>> \o ReadLines_keep_blank(Tail(lines))

\* feeds = [line.strip() for line in file if line.strip()]
RECURSIVE ReadLines(_)
ReadLines(lines) ==
    IF lines = <<>> THEN <<>>
    ELSE (IF Strip(Head(lines)) # <<>> THEN <<Strip(Head(lines))>> ELSE <<>>)
             \o ReadLines(Tail(lines))

\* The active list rewritten without the filter.
KeptFeeds_unfiltered(fs, removed) == fs

\* [f for f in feeds if f not in removed_feeds]
KeptFeeds(fs, removed) == SelectSeq(fs, LAMBDA f : ~InSeq(f, removed))

\* The file opened to append.
write_feeds_append(file, fs) == [exists |-> TRUE, lines |-> file.lines \o fs]

\* write_feeds: the file is created or truncated, whatever it held, and holds
\* one line per feed.
write_feeds(file, fs) == [exists |-> TRUE, lines |-> fs]

\* ------------------------------------------------------------------ inputs
\* The lines a feeds file is made of: a blank line, a URL, a URL to be stripped.
UrlA == <<"a">>
UrlB == <<"b">>
LinePool == {<<" ">>, UrlA, <<" ">> \o UrlB}

SeqsUpTo(S, n) == UNION {[1..k -> S] : k \in 0..n}

Missing == [exists |-> FALSE, lines |-> <<>>]
FeedFiles == {Missing} \cup {[exists |-> TRUE, lines |-> ls] : ls \in SeqsUpTo(LinePool, MaxFeeds)}
\* The quarantine file before the run, left by an earlier run.
RemovedFiles == {[exists |-> TRUE, lines |-> <<UrlB>>]}

\* Entries of a feed: one with a summary, one with a description only (no link),
\* one whose summary is a blank and whose title is not, one with an empty
\* summary, a content block of a line break and nothing else.
EntryA == [summary |-> <<"x">>, title |-> <<"A">>, link |-> <<"k">>]
EntryB == [description |-> <<"y">>, title |-> <<"B">>]
EntryW == [summary |-> <<" ">>, title |-> <<"C">>, link |-> <<"k">>]
EntryE == [summary |-> <<>>, content |-> <<"\n">>]
\* The entry at position k of a feed is usable (A at odd positions, B at even ones)
\* or one of the two others.
EntryAt(k) == (IF k % 2 = 1 THEN {EntryA} ELSE {EntryB}) \cup {EntryW, EntryE}
FeedEntries ==
    UNION {{es \in [1..k -> {EntryA, EntryB, EntryW, EntryE}] : \A p \in 1..k : es[p] \in EntryAt(p)} :
              k \in 0..MaxEntries}

FetchKinds == {"Timeout", "RequestException", "Exception"}
FetchOutcomes ==
    {[kind |-> k, bozo |-> 0, entries |-> <<>>] : k \in FetchKinds}
        \cup {[kind |-> "parsed", bozo |-> 0, entries |-> es] : es \in FeedEntries}
        \cup {[kind |-> "parsed", bozo |-> 1, entries |-> es] :
                es \in {fe \in FeedEntries : Len(fe) <= 1}}

\* Answers of the chat call made for an article: a text to be reformatted, a
\* text of blank lines only, an API error, any other exception.
ChatOutcomes ==
    {[kind |-> "ok", text |-> <<" ", "S", "\n", "\n", "T">>],
     [kind |-> "ok", text |-> <<" ", "\n">>],
     [kind |-> "ResponseError", text |-> <<>>],
     [kind |-> "Exception", text |-> <<>>]}

\* Answers of the probe call of ensure_model_available: success, ResponseError
\* with status 404, ResponseError with another status, another exception.
ProbeOutcomes == {"ok", "ResponseError404", "ResponseError", "Exception"}
PullOutcomes == {"ok", "Exception"}
\* Answers of the POST of text_to_speech: success, a status that raise_for_status
\* rejects, a transport error (both are RequestException).
TtsOutcomes == {"ok", "HTTPError", "ConnectionError"}

\* config.json: num_articles and the text_to_speech block (enabled, and whether
\* endpoint_url is set).
Configs ==
    {[num_articles |-> n, tts_enabled |-> t[1], tts_endpoint_url |-> t[2]] :
        n \in 0..MaxNumArticles, t \in {<<FALSE, FALSE>>, <<TRUE, FALSE>>, <<TRUE, TRUE>>}}

\* ------------------------------------------------------------------ state
VARIABLES
    pc,              \* where main() is
    config,          \* config.json
    feedsFile,       \* config['feeds_file']
    removedFile,     \* config['removed_feeds_file']
    digestFile,      \* <date>_feed-summaries.md
    audioFile,       \* <date>_feed-summaries.mp3 exists
    feeds,           \* main: feeds
    removed_feeds,   \* main: removed_feeds
    summaries,       \* main: summaries
    tts_summaries,   \* main: tts_summaries
    i,               \* position of feed_url in feeds
    articles,        \* main: articles
    j,               \* position of article in articles
    log,             \* the lines logged
    net,             \* the network calls made, with their answers
    writes,          \* the files written, in order
    before           \* the two feed lists as the run found them, the number of
                     \* the run, and the feeds the run before it quarantined

vars ==
    <<pc, config, feedsFile, removedFile, digestFile, audioFile, feeds, removed_feeds,
      summaries, tts_summaries, i, articles, j, log, net, writes, before>>

files == <<feedsFile, removedFile, digestFile, audioFile, writes>>
fixed == <<config, before>>
locals == <<feeds, removed_feeds, summaries, tts_summaries, i, articles, j>>

Line(level, msg, arg) == [level |-> level, msg |-> msg, arg |-> arg]
\* A call: "probe" and "pull" (ensure_model_available), "get" of a feed URL, "chat"
\* for an article, "post" of the narration text.
Call(op, arg, out) == [op |-> op, arg |-> arg, out |-> out]

Init ==
    /\ pc = "ensure_model"
    /\ config \in Configs
    /\ feedsFile \in FeedFiles
    /\ removedFile \in RemovedFiles
    /\ digestFile = [exists |-> FALSE, text |-> <<>>]
    /\ audioFile = FALSE
    /\ feeds = <<>>
    /\ removed_feeds = <<>>
    /\ summaries = <<>>
    /\ tts_summaries = <<>>
    /\ i = 0
    /\ articles = <<>>
    /\ j = 0
    /\ log = <<>>
    /\ net = <<>>
    /\ writes = <<>>
    /\ before = [feeds |-> feedsFile, removed |-> removedFile, run |-> 1, quarantined |-> <<>>]

\* ------------------------------------------------------------------ ensure_model_available
\* The status code of the ResponseError not looked at: a pull after any of them.
AfterProbe_any_status(out) ==
    IF out = "ok" THEN "read_feeds"
    ELSE IF out \in {"ResponseError404", "ResponseError"} THEN "pull"
    ELSE "returned"

\* Where main() goes when ensure_model_available returns or raises.
AfterProbe(out) ==
    IF out = "ok" THEN "read_feeds"
    ELSE IF out = "ResponseError404" THEN "pull"
    ELSE "returned"

ProbeLog(out) ==
    IF out = "ResponseError404" THEN <<Line("warning", "Model not found. Attempting to pull", <<>>)>>
    ELSE IF out = "ResponseError"
        THEN <<Line("error", "Unexpected error when checking model availability", <<>>),
               Line("error", "Failed to ensure model availability. Exiting.", <<>>)>>
    ELSE IF out = "Exception"
        THEN <<Line("error", "Failed to ensure model availability. Exiting.", <<>>)>>
    ELSE <<>>

\* ollama_client.chat(model=model, messages=[... "Test"])
ProbeModel ==
    /\ pc = "ensure_model"
    /\ \E out \in ProbeOutcomes :
        /\ net' = Append(net, Call("probe", <<>>, out))
        /\ log' = log \o ProbeLog(out)
        /\ pc' = AfterProbe(out)
    /\ UNCHANGED <<fixed, files, locals>>

\* The failure of the pull not raised again.
AfterPull_swallowed(out) == "read_feeds"

\* The model probed again after the pull.
AfterPull_reprobe(out) == IF out = "ok" THEN "ensure_model" ELSE "returned"

AfterPull(out) == IF out = "ok" THEN "read_feeds" ELSE "returned"

PullLog(out) ==
    IF out = "ok" THEN <<Line("info", "Successfully pulled model", <<>>)>>
    ELSE <<Line("error", "Failed to pull model", <<>>),
           Line("error", "Failed to ensure model availability. Exiting.", <<>>)>>

\* ollama_client.pull(model)
PullModel ==
    /\ pc = "pull"
    /\ \E out \in PullOutcomes :
        /\ net' = Append(net, Call("pull", <<>>, out))
        /\ log' = log \o PullLog(out)
        /\ pc' = AfterPull(out)
    /\ UNCHANGED <<fixed, files, locals>>

\* ------------------------------------------------------------------ read_feeds
\* The statements of main() after the loop, in the order of the code: the two
\* write_feeds calls, then the digest.
EndSteps_digest_first == <<"write_digest", "write_feeds", "write_removed">>

EndSteps == <<"write_feeds", "write_removed", "write_digest">>

\* Where main() goes after one of them: to the next, and after the last to the
\* test of config['text_to_speech']['enabled'].
AfterStep(step, cfg) ==
    IF \E k \in 1..(Len(EndSteps) - 1) : EndSteps[k] = step
        THEN EndSteps[(CHOOSE k \in 1..(Len(EndSteps) - 1) : EndSteps[k] = step) + 1]
    ELSE IF cfg.tts_enabled THEN "tts"
    ELSE "done"

\* The loop left after its first pass.
AfterFeed_leave_early(fs, k) == EndSteps[1]

\* Where the loop over feeds goes once the feed at position k is done.
AfterFeed(fs, k) == IF k < Len(fs) THEN "fetch" ELSE EndSteps[1]

ReadFeeds ==
    /\ pc = "read_feeds"
    /\ IF ~feedsFile.exists
          THEN /\ log' = Append(log, Line("error", "Feeds file not found", <<>>))
               /\ pc' = "exit1"
               /\ UNCHANGED <<feeds, i>>
          ELSE IF ReadLines(feedsFile.lines) = <<>>
          THEN /\ log' = Append(log, Line("error", "No feeds found", <<>>))
               /\ pc' = "exit1"
               /\ UNCHANGED <<feeds, i>>
          ELSE /\ feeds' = ReadLines(feedsFile.lines)
               /\ i' = 1
               /\ pc' = "fetch"
               /\ UNCHANGED log
    /\ UNCHANGED <<fixed, files, removed_feeds, summaries, tts_summaries, articles, j, net>>

\* ------------------------------------------------------------------ the loop over feeds
\* One pass of `for feed_url in feeds` up to the first article, or the whole pass
\* when the feed yields no article.
FetchFeed ==
    /\ pc = "fetch"
    /\ \E raw \in FetchOutcomes :
        LET feed_url == feeds[i]
            fetched == fetch_and_validate_feed(raw, config.num_articles)
            processing == <<Line("info", "Processing feed", feed_url)>> \o FetchLog(raw, feed_url)
        IN  /\ net' = Append(net, Call("get", feed_url, raw))
            /\ articles' = fetched
            /\ IF fetched.raised
                  THEN /\ pc' = "crashed"
                       /\ log' = log \o processing
                       /\ UNCHANGED <<removed_feeds, i, j>>
                  ELSE IF Truthy(fetched)
                  THEN /\ j' = 1
                       /\ pc' = "summarize"
                       /\ log' = log \o processing
                       /\ UNCHANGED <<removed_feeds, i>>
                  ELSE /\ removed_feeds' = Append(removed_feeds, feed_url)
                       /\ log' = log \o processing
                                     \o <<Line("warning", "No valid content found for feed", feed_url)>>
                       /\ i' = i + 1
                       /\ pc' = AfterFeed(feeds, i)
                       /\ UNCHANGED j
    /\ UNCHANGED <<fixed, files, feeds, summaries, tts_summaries>>

\* The article asked again as long as its summary fails.
NextArticle_retry(k, summary) == IF Truthy(summary) THEN k + 1 ELSE k

\* `for article in articles`: the position of the article after the one at k,
\* whatever summarize_article returned for it.
NextArticle(k, summary) == k + 1

\* One pass of `for article in articles`.
SummarizeArticle ==
    /\ pc = "summarize"
    /\ \E out \in ChatOutcomes :
        LET article == articles.val[j]
            summary == summarize_article(article, out)
            last == NextArticle(j, summary) > Len(articles.val)
        IN  /\ net' = Append(net, Call("chat", article, out))
            /\ IF summary.raised
                  THEN /\ pc' = "crashed"
                       /\ UNCHANGED <<summaries, tts_summaries, log, i, j>>
                  ELSE /\ IF Truthy(summary)
                             THEN /\ summaries' = Append(summaries, SummaryBlock(article, summary.val))
                                  /\ tts_summaries' = Append(tts_summaries, TtsEntry(article, summary.val))
                                  /\ log' = log \o SummarizeLog(out)
                             ELSE /\ log' = log \o SummarizeLog(out)
                                         \o <<Line("warning", "Failed to summarize article", article.title)>>
                                  /\ UNCHANGED <<summaries, tts_summaries>>
                       /\ j' = IF last THEN j ELSE NextArticle(j, summary)
                       /\ i' = IF last THEN i + 1 ELSE i
                       /\ pc' = IF last THEN AfterFeed(feeds, i) ELSE pc
    /\ UNCHANGED <<fixed, files, feeds, removed_feeds, articles>>

\* ------------------------------------------------------------------ the end of the run
\* write_feeds(feeds_file, [f for f in feeds if f not in removed_feeds])
WriteFeeds ==
    /\ pc = "write_feeds"
    /\ feedsFile' = write_feeds(feedsFile, KeptFeeds(feeds, removed_feeds))
    /\ writes' = Append(writes, "feeds")
    /\ pc' = AfterStep("write_feeds", config)
    /\ UNCHANGED <<fixed, removedFile, digestFile, audioFile, locals, log, net>>

\* write_feeds(removed_feeds_file, removed_feeds)
WriteRemoved ==
    /\ pc = "write_removed"
    /\ removedFile' = write_feeds(removedFile, removed_feeds)
    /\ writes' = Append(writes, "removed")
    /\ pc' = AfterStep("write_removed", config)
    /\ UNCHANGED <<fixed, feedsFile, digestFile, audioFile, locals, log, net>>

WriteDigest ==
    /\ pc = "write_digest"
    /\ digestFile' = [exists |-> TRUE, text |-> DigestText(summaries)]
    /\ writes' = Append(writes, "digest")
    /\ log' = log \o <<Line("info", "Summaries written", <<>>)>>
                  \o (IF removed_feeds # <<>>
                         THEN <<Line("info", "Removed feed(s) due to lack of content", <<>>)>>
                         ELSE <<>>)
    /\ pc' = AfterStep("write_digest", config)
    /\ UNCHANGED <<fixed, feedsFile, removedFile, audioFile, locals, net>>

\* s with the occurrences of old from position k on, left to right and not
\* overlapping, replaced by new; the text before k is left out.
RECURSIVE ReplaceFrom(_, _, _, _)
ReplaceFrom(s, old, new, k) ==
    IF k + Len(old) - 1 > Len(s) THEN SubSeq(s, k, Len(s))
    ELSE IF SubSeq(s, k, k + Len(old) - 1) = old
        THEN new \o ReplaceFrom(s, old, new, k + Len(old))
    ELSE <<s[k]>> \o ReplaceFrom(s, old, new, k + 1)

\* str.replace(old, new), for a non-empty old (v is s, computed once)
Replace(s, old, new) ==
    CHOOSE r \in {ReplaceFrom(v, old, new, 1) : v \in {s}} : TRUE

\* The blank lines left in.
CleanTts_keep_blank_lines(text) == Replace(text, <<"#">>, <<>>)

\* text_content.replace("#", "").replace("##", "").replace("###", "").replace("\n\n", " ")
CleanTts(text) ==
    Replace(Replace(Replace(Replace(text, <<"#">>, <<>>), <<"#", "#">>, <<>>),
                    <<"#", "#", "#">>, <<>>), <<"\n", "\n">>, <<" ">>)

RECURSIVE CleanAll(_)
CleanAll(texts) ==
    IF texts = <<>> THEN <<>> ELSE <<CleanTts(Head(texts))>> \o CleanAll(Tail(texts))

\* f"News for {formatted_date}:\n\n" + "\n".join(clean_tts_summaries)
TtsText(texts) ==
    <<"N", "e", "w", "s", " ", "f", "o", "r", " ">> \o FormattedDate \o <<":">> \o NL \o NL
        \o Join(NL, CleanAll(texts))

\* The result of text_to_speech not looked at.
AfterTts_unchecked(out) == "append_link"

\* Where main() goes when text_to_speech returns.
AfterTts(out) == IF out = "ok" THEN "append_link" ELSE "done"

\* text_to_speech(tts_str, audio_file, config) and the branch on its result.
TextToSpeech ==
    /\ pc = "tts"
    /\ IF ~config.tts_endpoint_url
          THEN /\ log' = log \o <<Line("error", "TTS endpoint URL not provided in config.", <<>>),
                                  Line("warning", "Failed to generate audio summary", <<>>)>>
               /\ pc' = "done"
               /\ UNCHANGED <<net, audioFile, writes>>
          ELSE \E out \in TtsOutcomes :
               /\ net' = Append(net, Call("post", TtsText(tts_summaries), out))
               /\ pc' = AfterTts(out)
               /\ IF out = "ok"
                     THEN /\ audioFile' = TRUE
                          /\ writes' = Append(writes, "audio")
                          /\ log' = log \o <<Line("info", "Audio file saved", <<>>),
                                             Line("info", "Audio summary generated", <<>>)>>
                     ELSE /\ log' = log \o <<Line("error", "Failed to generate speech", <<>>),
                                             Line("warning", "Failed to generate audio summary", <<>>)>>
                          /\ UNCHANGED <<audioFile, writes>>
    /\ UNCHANGED <<fixed, feedsFile, removedFile, digestFile, locals>>

\* with open(output_file, 'a') as file: file.write(link)
AppendLink ==
    /\ pc = "append_link"
    /\ digestFile' = [digestFile EXCEPT !.text = @ \o AudioLink]
    /\ writes' = Append(writes, "link")
    /\ log' = Append(log, Line("info", "Added audio link", <<>>))
    /\ pc' = "done"
    /\ UNCHANGED <<fixed, feedsFile, removedFile, audioFile, locals, net>>

\* ------------------------------------------------------------------ the process
\* "done": main() returned at its end; "returned": main() returned after the
\* failed model check; "exit1": sys.exit(1) of read_feeds; "interrupted":
\* sys.exit(0) of the KeyboardInterrupt handler; "crashed": an exception left
\* main(), which no call of main() raises as the code stands.
Ended == {"done", "returned", "exit1", "interrupted", "crashed"}

\* The exit status of the process: sys.exit(1) of read_feeds, sys.exit(0) of the
\* KeyboardInterrupt handler, 0 when main() returns, 1 when an exception leaves it.
ExitStatus(at) == IF at \in {"exit1", "crashed"} THEN 1 ELSE 0

\* except KeyboardInterrupt: print(...); sys.exit(0)
Interrupt ==
    /\ pc \notin Ended
    /\ pc' = "interrupted"
    /\ UNCHANGED <<fixed, files, locals, log, net>>

Run ==
    \/ ProbeModel
    \/ PullModel
    \/ ReadFeeds
    \/ FetchFeed
    \/ SummarizeArticle
    \/ WriteFeeds
    \/ WriteRemoved
    \/ WriteDigest
    \/ TextToSpeech
    \/ AppendLink

Next == Run \/ Interrupt

Spec == Init /\ [][Next]_vars

\* The run when nobody interrupts it: main() is one thread, and each of its
\* steps that can be taken is taken.
LiveSpec == Init /\ [][Run]_vars /\ WF_vars(Run)

\* ------------------------------------------------------------------ one run after the other
\* The program started again on a later day, after a run that went to its end:
\* the two feed lists are as that run left them, the digest and the audio file
\* of the new day do not exist yet, and main() starts from its first line.
StartNextRun ==
    /\ pc = "done"
    /\ before.run < MaxRuns
    /\ pc' = "ensure_model"
    /\ before' = [feeds |-> feedsFile, removed |-> removedFile, run |-> before.run + 1,
                  quarantined |-> removed_feeds]
    /\ digestFile' = [exists |-> FALSE, text |-> <<>>]
    /\ audioFile' = FALSE
    /\ feeds' = <<>>
    /\ removed_feeds' = <<>>
    /\ summaries' = <<>>
    /\ tts_summaries' = <<>>
    /\ i' = 0
    /\ articles' = <<>>
    /\ j' = 0
    /\ log' = <<>>
    /\ net' = <<>>
    /\ writes' = <<>>
    /\ UNCHANGED <<config, feedsFile, removedFile>>

NextRuns == Next \/ StartNextRun

RunsSpec == Init /\ [][NextRuns]_vars

\* ------------------------------------------------------------------ the narration alone
\* The stripping of markdown (main.py:219-223) on its own: main() stands at the
\* test of text_to_speech.enabled, after a run of one feed, and the entries of
\* tts_summaries are drawn from the texts of up to MaxTextLen characters over a
\* heading mark, a line break, a space and a letter, and the text
\* "## Title\n\nBody text".
Example ==
    <<"#", "#", " ", "T", "i", "t", "l", "e", "\n", "\n", "B", "o", "d", "y", " ", "t", "e", "x", "t">>
NarrationChars == {"#", "\n", " ", "t"}
NarrationTexts == (SeqsUpTo(NarrationChars, MaxTextLen) \ {<<>>}) \cup {Example}
NarrationLists ==
    {<<t>> : t \in NarrationTexts}
        \cup {<<t, u>> : t, u \in SeqsUpTo(NarrationChars, MaxTextLen - 2) \ {<<>>}}

NarrationInit ==
    /\ pc = "tts"
    /\ config \in {c \in Configs : c.tts_enabled /\ c.num_articles = MaxNumArticles}
    /\ tts_summaries \in NarrationLists
    /\ summaries = [k \in 1..Len(tts_summaries) |-> SummaryBlock(MakeArticle(EntryA), <<"S">>)]
    /\ feeds = <<UrlA>>
    /\ removed_feeds = <<>>
    /\ i = 2
    /\ articles = Some([k \in 1..Len(tts_summaries) |-> MakeArticle(EntryA)])
    /\ j = Len(tts_summaries)
    /\ feedsFile = [exists |-> TRUE, lines |-> <<UrlA>>]
    /\ removedFile = [exists |-> TRUE, lines |-> <<>>]
    /\ digestFile = [exists |-> TRUE, text |-> DigestText(summaries)]
    /\ audioFile = FALSE
    /\ log = <<>>
    /\ net = <<>>
    /\ writes = <<"feeds", "removed", "digest">>
    /\ before = [feeds |-> feedsFile, removed |-> removedFile, run |-> 1, quarantined |-> <<>>]

NarrationNext == TextToSpeech \/ AppendLink

NarrationSpec == NarrationInit /\ [][NarrationNext]_vars

\* ------------------------------------------------------------------ what the claims speak of
Count(s, x) == Cardinality({k \in 1..Len(s) : s[k] = x})
Elems(s) == {s[k] : k \in 1..Len(s)}
NoRepeat(s) == \A p, q \in 1..Len(s) : s[p] = s[q] => p = q

\* s is t with some of its elements left out.
RECURSIVE IsSubSeq(_, _)
IsSubSeq(s, t) ==
    IF s = <<>> THEN TRUE
    ELSE IF t = <<>> THEN FALSE
    ELSE IF Head(s) = Head(t) THEN IsSubSeq(Tail(s), Tail(t))
    ELSE IsSubSeq(s, Tail(t))

Calls(op) == SelectSeq(net, LAMBDA c : c.op = op)
Wrote(f) == InSeq(f, writes)
\* Both feed lists of this run have been rewritten.
RegistryWritten == Wrote("feeds") /\ Wrote("removed")

\* ------------------------------------------------------------------ C1
\* C1 as claimed: once both lists are rewritten, every feed of the list read at
\* the start, counted with its repetitions, is in exactly one of the two lists,
\* and each list keeps the original order.
C1_PartitionWithRepeats ==
    RegistryWritten =>
        /\ \A u \in Elems(feeds) :
              Count(feedsFile.lines, u) + Count(removedFile.lines, u) = Count(feeds, u)
        /\ Elems(feedsFile.lines) \cap Elems(removedFile.lines) = {}
        /\ IsSubSeq(feedsFile.lines, feeds)
        /\ IsSubSeq(removedFile.lines, feeds)

\* C1 as amended: once both lists are rewritten, the two lists are disjoint, hold
\* together exactly the URLs read at the start, and each is the original list
\* with some lines left out; when no URL is repeated in the original list, every
\* original feed is exactly once in exactly one of the two lists.
C1_Partition ==
    RegistryWritten =>
        /\ Elems(feedsFile.lines) \cup Elems(removedFile.lines) = Elems(feeds)
        /\ Elems(feedsFile.lines) \cap Elems(removedFile.lines) = {}
        /\ IsSubSeq(feedsFile.lines, feeds)
        /\ IsSubSeq(removedFile.lines, feeds)
        /\ NoRepeat(feeds) =>
              \A u \in Elems(feeds) :
                  Count(feedsFile.lines, u) + Count(removedFile.lines, u) = 1

\* A run of two different feeds that kept the second and quarantined the first.
C1_Witness ==
    /\ pc = "done"
    /\ feeds = <<UrlA, UrlB>>
    /\ feedsFile.lines = <<UrlB>>
    /\ removedFile.lines = <<UrlA>>

\* A repeated URL whose fetches ended differently.
C1_RepeatWitness ==
    /\ RegistryWritten
    /\ feeds = <<UrlA, UrlA>>
    /\ feedsFile.lines = <<>>
    /\ removedFile.lines = <<UrlA>>

\* ------------------------------------------------------------------ C2, C3
Last(s) == s[Len(s)]

\* The fetch delivered a parsed feed with an entry whose selected content is not
\* blank, at any position and whatever the parser's bozo flag says.
HasUsableEntry(raw) ==
    /\ raw.kind = "parsed"
    /\ \E k \in 1..Len(raw.entries) : HasContent(raw.entries[k])

\* The fetch delivered a well-formed feed with such an entry among its first num
\* entries.
Delivers(raw, num) ==
    /\ raw.kind = "parsed"
    /\ raw.bozo # 1
    /\ \E k \in 1..Len(raw.entries) : k <= num /\ HasContent(raw.entries[k])

\* C2 as claimed: a feed whose fetch delivered at least one entry with non-empty
\* content is in the rewritten active list and not in the quarantine list.
C2_UsableNeverQuarantined ==
    RegistryWritten =>
        \A k \in 1..Len(Calls("get")) :
            LET c == Calls("get")[k]
            IN  HasUsableEntry(c.out) =>
                    /\ c.arg \in Elems(feedsFile.lines)
                    /\ c.arg \notin Elems(removedFile.lines)

\* C2 as amended: a URL each of whose fetches in the run delivered a well-formed
\* feed with a non-blank entry among its first num_articles entries is in the
\* rewritten active list and not in the quarantine list, whatever became of the
\* summaries of its articles.
C2_DeliveringNeverQuarantined ==
    RegistryWritten =>
        \A u \in Elems(feeds) :
            (\A k \in 1..Len(Calls("get")) :
                Calls("get")[k].arg = u => Delivers(Calls("get")[k].out, config.num_articles))
            => /\ u \in Elems(feedsFile.lines)
               /\ u \notin Elems(removedFile.lines)

\* A feed kept in the active list although every summary of its two articles
\* failed.
C2_Witness ==
    /\ RegistryWritten
    /\ feeds = <<UrlA>>
    /\ feedsFile.lines = <<UrlA>>
    /\ Len(Calls("chat")) = 2
    /\ \A k \in 1..2 : Calls("chat")[k].out.kind # "ok"
    /\ summaries = <<>>

\* C3: a fetch that times out, fails, delivers a malformed feed or yields no
\* usable article appends its feed to removed_feeds and does nothing else: no
\* article, no summarization call, no file touched; the loop goes on with the
\* next feed of the list (or ends, after the last one).
C3_FailureQuarantinesOnly ==
    [][(pc = "fetch" /\ pc' # "interrupted" /\ ~Delivers(Last(net').out, config.num_articles))
          => /\ removed_feeds' = Append(removed_feeds, feeds[i])
             /\ ~Truthy(articles')
             /\ net' = Append(net, Call("get", feeds[i], Last(net').out))
             /\ i' = i + 1
             /\ pc' = (IF i < Len(feeds) THEN "fetch" ELSE "write_feeds")
             /\ UNCHANGED <<summaries, tts_summaries, feeds, files>>]_vars

\* A timeout, then a malformed feed: both quarantined, no summarization call.
C3_Witness ==
    /\ pc = "write_feeds"
    /\ removed_feeds = <<UrlA, UrlB>>
    /\ Calls("get")[1].out.kind = "Timeout"
    /\ Calls("get")[2].out.bozo = 1
    /\ Calls("get")[2].out.entries # <<>>
    /\ Calls("chat") = <<>>

\* A transport error and a feed with no usable entry, the loop going on after each.
C3_WitnessOther ==
    /\ pc = "summarize"
    /\ removed_feeds = <<UrlA>>
    /\ \/ Calls("get")[1].out.kind = "RequestException"
       \/ Calls("get")[1].out.entries = <<EntryW>>
    /\ i = 2

\* ------------------------------------------------------------------ C4
\* The feeds file holds a line that is not blank.
HasFeedLine(f) ==
    /\ f.exists
    /\ \E k \in 1..Len(f.lines) : \E p \in 1..Len(f.lines[k]) : ~IsSpace(f.lines[k][p])

\* Every feed of the list has been fetched, in the order of the list.
AllFeedsFetched ==
    /\ Len(Calls("get")) = Len(feeds)
    /\ \A k \in 1..Len(feeds) : Calls("get")[k].arg = feeds[k]

\* C4: once the model check has succeeded and the feeds file holds a feed, the
\* run goes through every feed of the list and writes the digest file, whatever
\* the fetches and the summarization calls answer.
C4_RunCompletes ==
    (pc = "read_feeds" /\ HasFeedLine(feedsFile))
        ~> (pc = "done" /\ digestFile.exists /\ AllFeedsFetched)

\* A finished run whose fetches and summaries failed in every way: the digest is
\* written and holds its header only.
C4_Witness ==
    /\ pc = "done"
    /\ Len(feeds) = 2
    /\ Calls("get")[1].out.kind = "Exception"
    /\ Len(Calls("chat")) = 2
    /\ Calls("chat")[1].out.kind = "Exception"
    /\ Calls("chat")[2].out = [kind |-> "ok", text |-> <<" ", "\n">>]
    /\ digestFile = [exists |-> TRUE, text |-> Header]

\* ------------------------------------------------------------------ C5
\* The chat call answered, and its answer holds a character that is not blank.
NonEmptyAnswer(out) ==
    /\ out.kind = "ok"
    /\ \E p \in 1..Len(out.text) : ~IsSpace(out.text[p])

\* The blocks of the calls that returned a summary, in the order of the calls.
RECURSIVE BlocksOf(_)
BlocksOf(calls) ==
    IF calls = <<>> THEN <<>>
    ELSE (IF NonEmptyAnswer(Head(calls).out)
             THEN <<SummaryBlock(Head(calls).arg, FormatSummary(Head(calls).out.text))>>
             ELSE <<>>)
         \o BlocksOf(Tail(calls))

\* The titles of the articles whose call returned no summary, in that order.
RECURSIVE FailedTitles(_)
FailedTitles(calls) ==
    IF calls = <<>> THEN <<>>
    ELSE (IF NonEmptyAnswer(Head(calls).out) THEN <<>> ELSE <<Head(calls).arg.title>>)
         \o FailedTitles(Tail(calls))

\* The titles the warnings "Failed to summarize article" name.
RECURSIVE WarnedTitles(_)
WarnedTitles(lines) ==
    IF lines = <<>> THEN <<>>
    ELSE (IF Head(lines).level = "warning" /\ Head(lines).msg = "Failed to summarize article"
             THEN <<Head(lines).arg>> ELSE <<>>)
         \o WarnedTitles(Tail(lines))

\* The articles of the feeds fetched, feed after feed.
RECURSIVE ArticlesOf(_, _)
ArticlesOf(gets, num) ==
    IF gets = <<>> THEN <<>>
    ELSE fetch_and_validate_feed(Head(gets).out, num).val \o ArticlesOf(Tail(gets), num)

RECURSIVE Args(_)
Args(calls) == IF calls = <<>> THEN <<>> ELSE <<Head(calls).arg>> \o Args(Tail(calls))

LoopDone == pc \in {"write_feeds", "write_removed", "write_digest", "tts", "append_link", "done"}

\* C5: the digest has a block for an article exactly when the call made for it
\* returned a summary that is not empty; the others are named by a warning each,
\* and every article of every fetched feed gets its call, whatever the calls
\* before it returned.
C5_ArticleIsolation ==
    /\ summaries = BlocksOf(Calls("chat"))
    /\ WarnedTitles(log) = FailedTitles(Calls("chat"))
    /\ LoopDone => Args(Calls("chat")) = ArticlesOf(Calls("get"), config.num_articles)
    /\ digestFile.exists =>
          \/ digestFile.text = DigestText(BlocksOf(Calls("chat")))
          \/ digestFile.text = DigestText(BlocksOf(Calls("chat"))) \o AudioLink

\* Articles A and B of one feed: the call for A fails, B is summarized all the
\* same and is the only block of the digest.
C5_Witness ==
    /\ pc = "done"
    /\ Len(Calls("chat")) = 2
    /\ Calls("chat")[1].arg.title = <<"A">>
    /\ Calls("chat")[1].out.kind = "ResponseError"
    /\ Calls("chat")[2].arg.title = <<"B">>
    /\ Calls("chat")[2].out.kind = "ok"
    /\ WarnedTitles(log) = <<<<"A">>>>
    /\ digestFile.text =
          Header \o <<"#", "#", " ", "B", "\n", "\n", "S", "\n", "T", "\n", "\n">>
              \o NoUrl \o <<"\n", "\n">>

\* The same feed, the call for A answered and the call for B answered with blank
\* lines only.
C5_WitnessEmpty ==
    /\ pc = "done"
    /\ Len(Calls("chat")) = 2
    /\ NonEmptyAnswer(Calls("chat")[1].out)
    /\ Calls("chat")[2].out = [kind |-> "ok", text |-> <<" ", "\n">>]
    /\ Len(summaries) = 1
    /\ WarnedTitles(log) = <<<<"B">>>>

\* ------------------------------------------------------------------ C6, C7
ProbeOut == IF Calls("probe") = <<>> THEN "none" ELSE Calls("probe")[1].out
PullOut == IF Calls("pull") = <<>> THEN "none" ELSE Calls("pull")[1].out

GateOpen == ProbeOut = "ok" \/ (ProbeOut = "ResponseError404" /\ PullOut = "ok")
GateShut ==
    \/ ProbeOut \in {"ResponseError", "Exception"}
    \/ ProbeOut = "ResponseError404" /\ PullOut = "Exception"

NothingWritten ==
    /\ writes = <<>>
    /\ ~digestFile.exists
    /\ ~audioFile
    /\ feedsFile = before.feeds
    /\ removedFile = before.removed

\* C6: main() goes past the model check exactly when the probe succeeds, or
\* reports 404 and the pull succeeds; otherwise it returns with no feed fetched
\* and no file written.
C6_ProvisioningGate ==
    /\ (pc \in {"read_feeds", "exit1", "fetch", "summarize"} \/ LoopDone) => GateOpen
    /\ Calls("get") # <<>> => GateOpen
    /\ GateOpen => pc \notin {"ensure_model", "pull", "returned"}
    /\ GateShut =>
          /\ pc = "returned"
          /\ Calls("get") = <<>>
          /\ Calls("chat") = <<>>
          /\ NothingWritten

\* The probe reported 404, the pull succeeded, and a feed has been fetched.
C6_Witness ==
    /\ ProbeOut = "ResponseError404"
    /\ PullOut = "ok"
    /\ Calls("get") # <<>>

\* The pull failed: main() returned.
C6_WitnessAbort ==
    /\ ProbeOut = "ResponseError404"
    /\ PullOut = "Exception"
    /\ pc = "returned"

\* C7: the probe of the model is the first call of the run and is made once:
\* before every fetch and every summarization call, and never again.
C7_ModelCheckedOnce ==
    /\ \A k \in 1..Len(net) : net[k].op = "probe" <=> k = 1
    /\ pc # "ensure_model" /\ pc # "interrupted" => Len(Calls("probe")) = 1

\* A finished run of two feeds and three articles.
C7_Witness ==
    /\ pc = "done"
    /\ Len(Calls("get")) = 2
    /\ Len(Calls("chat")) = 3
    /\ Len(Calls("pull")) = 1
    /\ Len(Calls("probe")) = 1

\* ------------------------------------------------------------------ C8
\* C8: a feeds file that is missing or holds blank lines only ends the run at
\* read_feeds: no feed is fetched, no summarization call is made, no file is
\* written or changed; and the run ends there for no other reason.
C8_NoFeedsIsFatal ==
    /\ ~HasFeedLine(before.feeds) =>
          /\ pc \in {"ensure_model", "pull", "returned", "read_feeds", "exit1", "interrupted"}
          /\ Calls("get") = <<>>
          /\ Calls("chat") = <<>>
          /\ NothingWritten
    /\ pc = "exit1" => ~HasFeedLine(before.feeds)

\* The run ended by a feeds file of two blank lines.
C8_Witness ==
    /\ pc = "exit1"
    /\ feedsFile = [exists |-> TRUE, lines |-> <<<<" ">>, <<" ">>>>]
    /\ Last(log).msg = "No feeds found"

\* The run ended by a missing feeds file.
C8_WitnessMissing ==
    /\ pc = "exit1"
    /\ ~feedsFile.exists
    /\ Last(log).msg = "Feeds file not found"

\* ------------------------------------------------------------------ C9
IsPrefix(s, t) == Len(s) <= Len(t) /\ SubSeq(t, 1, Len(s)) = s

\* C9 as claimed: no feed list is rewritten before the digest of the run is
\* written.
C9_DigestBeforeRegistry ==
    (Wrote("feeds") \/ Wrote("removed")) => Wrote("digest")

\* C9 as amended: after all feeds have been processed the active list is
\* rewritten, then the quarantine list, then the digest is written, and only
\* then the audio renderer runs; the digest is never written before both lists
\* are rewritten.
C9_RegistryThenDigestThenAudio ==
    /\ IsPrefix(writes, <<"feeds", "removed", "digest", "audio", "link">>)
    /\ writes # <<>> => AllFeedsFetched /\ i = Len(feeds) + 1
    /\ (pc \in {"tts", "append_link"} \/ Calls("post") # <<>>) => Wrote("digest")

\* Both lists are rewritten and the digest is not yet.
C9_Witness ==
    /\ pc = "write_digest"
    /\ writes = <<"feeds", "removed">>
    /\ ~digestFile.exists

\* ------------------------------------------------------------------ C10
TtsOk == Calls("post") # <<>> /\ Calls("post")[1].out = "ok"
TtsFailed ==
    \/ Calls("post") # <<>> /\ Calls("post")[1].out # "ok"
    \/ InSeq(Line("error", "TTS endpoint URL not provided in config.", <<>>), log)

\* C10: text_to_speech is called only when enabled and after the digest is
\* written, and once; when it fails the run ends normally and the digest holds
\* what was written; the link is appended once, after a success, and only then.
C10_AudioFailureIsHarmless ==
    /\ (pc \in {"tts", "append_link"} \/ Calls("post") # <<>> \/ TtsFailed \/ audioFile) =>
          config.tts_enabled /\ Wrote("digest")
    /\ Len(Calls("post")) <= 1
    /\ digestFile.exists =>
          digestFile.text = DigestText(summaries) \o (IF Wrote("link") THEN AudioLink ELSE <<>>)
    /\ Count(writes, "link") <= 1
    /\ Wrote("link") => TtsOk /\ audioFile
    /\ pc = "done" /\ TtsOk => Wrote("link")
    /\ TtsFailed =>
          /\ pc = "done"
          /\ ~audioFile
          /\ digestFile = [exists |-> TRUE, text |-> DigestText(summaries)]

\* The POST answered with an error status: the run is done, the digest holds its
\* block and no link.
C10_Witness ==
    /\ pc = "done"
    /\ Calls("post") # <<>>
    /\ Calls("post")[1].out = "HTTPError"
    /\ Len(summaries) = 1
    /\ digestFile.text = Header \o summaries[1]

\* No endpoint configured.
C10_WitnessNoEndpoint ==
    /\ pc = "done"
    /\ config.tts_enabled
    /\ ~config.tts_endpoint_url
    /\ Calls("post") = <<>>
    /\ digestFile.exists

\* The audio was rendered and the link appended.
C10_WitnessOk ==
    /\ pc = "done"
    /\ TtsOk
    /\ digestFile.text = DigestText(summaries) \o AudioLink

\* ------------------------------------------------------------------ C11
Blank(t) == \A p \in 1..Len(t) : IsSpace(t[p])

\* The first of the fields summary, description, content, title of the entry
\* that is neither empty nor made of whitespace only; <<>> when there is none.
FirstNonBlank(e) ==
    IF ~Blank(Get(e, "summary", <<>>)) THEN e["summary"]
    ELSE IF ~Blank(Get(e, "description", <<>>)) THEN e["description"]
    ELSE IF ~Blank(Get(e, "content", <<>>)) THEN e["content"]
    ELSE IF ~Blank(Get(e, "title", <<>>)) THEN e["title"]
    ELSE <<>>

\* The contents the fallback chain promises for a list of entries: one for each
\* entry that has a field that is not blank, that field.
RECURSIVE PromisedContents(_)
PromisedContents(es) ==
    IF es = <<>> THEN <<>>
    ELSE (IF FirstNonBlank(Head(es)) # <<>> THEN <<FirstNonBlank(Head(es))>> ELSE <<>>)
             \o PromisedContents(Tail(es))

RECURSIVE Contents(_)
Contents(arts) ==
    IF arts = <<>> THEN <<>> ELSE <<Head(arts).content>> \o Contents(Tail(arts))

\* The last fetch delivered a well-formed feed.
LastFetchWellFormed ==
    /\ Calls("get") # <<>>
    /\ Last(Calls("get")).out.kind = "parsed"
    /\ Last(Calls("get")).out.bozo # 1

AllBlank(e) == FirstNonBlank(e) = <<>>

\* The entries fetch_and_validate_feed looked at in the last fetch.
LastEntries == SliceTo(Last(Calls("get")).out.entries, config.num_articles)

\* C12: no article has blank content, neither in the list the extraction
\* returned, nor as the argument of a summarization call, nor behind a block of
\* the digest; the extraction never returns an empty list; and when one of the
\* entries looked at has blank fields only, it yields no article, so that the
\* articles are fewer than the entries.
C12_NoEmptyArticle ==
    /\ Calls("get") # <<>> =>
          /\ \A k \in 1..Len(articles.val) : ~Blank(articles.val[k].content)
          /\ ~articles.none => articles.val # <<>>
    /\ \A k \in 1..Len(Calls("chat")) : ~Blank(Calls("chat")[k].arg.content)
    /\ \A k \in 1..Len(summaries) :
          \E c \in 1..Len(Calls("chat")) :
              /\ ~Blank(Calls("chat")[c].arg.content)
              /\ IsPrefix(<<"#", "#", " ">> \o Calls("chat")[c].arg.title \o NL, summaries[k])
    /\ LastFetchWellFormed =>
          Len(articles.val) + Cardinality({k \in 1..Len(LastEntries) : AllBlank(LastEntries[k])})
              <= Len(LastEntries)

\* A feed of a usable entry and an entry of blank fields only: one article.
C12_Witness ==
    /\ pc = "summarize"
    /\ LastFetchWellFormed
    /\ LastEntries = <<EntryA, EntryE>>
    /\ Len(articles.val) = 1
    /\ articles.val[1].content = <<"x">>

\* A feed of blank entries only: no article, the feed is quarantined.
C12_WitnessNone ==
    /\ LastFetchWellFormed
    /\ LastEntries = <<EntryE, EntryE>>
    /\ articles = PyNone
    /\ Last(removed_feeds) = Last(Calls("get")).arg

\* ------------------------------------------------------------------ C13
\* The entries as articles, one for one.
RECURSIVE AsArticles(_)
AsArticles(es) ==
    IF es = <<>> THEN <<>> ELSE <<MakeArticle(Head(es))>> \o AsArticles(Tail(es))

\* C13: the articles a fetch returns are the first num_articles entries of the
\* feed with some of them left out, in the order of the feed: never more than
\* num_articles, and never an entry from beyond position num_articles.
C13_AtMostMaxArticlesInOrder ==
    Calls("get") # <<>> =>
        /\ IsSubSeq(articles.val, AsArticles(LastEntries))
        /\ Len(articles.val) <= config.num_articles

\* One article asked for, the first entry dropped for its blank content: the
\* second entry is not returned in its place.
C13_Witness ==
    /\ LastFetchWellFormed
    /\ config.num_articles = 1
    /\ Last(Calls("get")).out.entries = <<EntryW, EntryB>>
    /\ articles = PyNone

\* One article asked for of a feed of two usable entries: the first one.
C13_WitnessFirst ==
    /\ pc = "summarize"
    /\ config.num_articles = 1
    /\ Last(Calls("get")).out.entries = <<EntryA, EntryB>>
    /\ Contents(articles.val) = <<<<"x">>>>

\* No article asked for.
C13_WitnessZero ==
    /\ LastFetchWellFormed
    /\ config.num_articles = 0
    /\ Last(Calls("get")).out.entries = <<EntryA, EntryB>>
    /\ articles = PyNone

\* ------------------------------------------------------------------ C14
\* The calls a loop over the fetched feeds makes, feed after feed: the fetch of
\* the feed, then one summarization call for each of its articles, in their
\* order.
RECURSIVE CallsInOrder(_, _)
CallsInOrder(gets, num) ==
    IF gets = <<>> THEN <<>>
    ELSE LET arts == fetch_and_validate_feed(Head(gets).out, num).val
         IN  <<[op |-> "get", arg |-> Head(gets).arg]>>
                 \o [k \in 1..Len(arts) |-> [op |-> "chat", arg |-> arts[k]]]
                 \o CallsInOrder(Tail(gets), num)

\* The fetches and summarization calls made so far, without their answers.
LoopCalls ==
    LET made == SelectSeq(net, LAMBDA c : c.op \in {"get", "chat"})
    IN  [k \in 1..Len(made) |-> [op |-> made[k].op, arg |-> made[k].arg]]

\* C14: the feeds are fetched in the order of the list, one at a time; the
\* articles of a feed are summarized in their order and all of them before the
\* next feed is fetched; the blocks of the digest are those of the summaries
\* returned, in the order of the calls.
C14_FeedThenArticleOrder ==
    /\ Len(Calls("get")) <= Len(feeds)
    /\ \A k \in 1..Len(Calls("get")) : Calls("get")[k].arg = feeds[k]
    /\ IsPrefix(LoopCalls, CallsInOrder(Calls("get"), config.num_articles))
    /\ pc = "fetch" \/ LoopDone => LoopCalls = CallsInOrder(Calls("get"), config.num_articles)
    /\ summaries = BlocksOf(Calls("chat"))
    /\ digestFile.exists =>
          IsPrefix(Header \o Join(NL, BlocksOf(Calls("chat"))), digestFile.text)

\* Feed a with article A, feed b with articles A and B, all summarized: the
\* digest holds the blocks of A, A and B in that order.
C14_Witness ==
    /\ pc = "done"
    /\ feeds = <<UrlA, UrlB>>
    /\ LoopCalls =
          <<[op |-> "get", arg |-> UrlA], [op |-> "chat", arg |-> MakeArticle(EntryA)],
            [op |-> "get", arg |-> UrlB], [op |-> "chat", arg |-> MakeArticle(EntryA)],
            [op |-> "chat", arg |-> MakeArticle(EntryB)]>>
    /\ digestFile.text =
          Header \o Join(NL, <<SummaryBlock(MakeArticle(EntryA), <<"S", "\n", "T">>),
                               SummaryBlock(MakeArticle(EntryA), <<"S", "\n", "T">>),
                               SummaryBlock(MakeArticle(EntryB), <<"S", "\n", "T">>)>>)

\* ------------------------------------------------------------------ C15
\* C15: every call is made once.  The model is probed at most once and pulled at
\* most once, the narration is posted at most once; the feed at each position of
\* the list is fetched once (as many fetches as positions gone through, the
\* k-th fetch being of the k-th feed), and each article of each fetched feed gets
\* one summarization call (as many calls as articles gone through), whatever the
\* calls answered.
C15_SingleAttempt ==
    /\ Len(Calls("probe")) <= 1
    /\ Len(Calls("pull")) <= 1
    /\ Len(Calls("post")) <= 1
    /\ Len(Calls("get")) <= Len(feeds)
    /\ \A k \in 1..Len(Calls("get")) : Calls("get")[k].arg = feeds[k]
    /\ IsPrefix(Args(Calls("chat")), ArticlesOf(Calls("get"), config.num_articles))
    /\ pc = "fetch" =>
          /\ Len(Calls("get")) = i - 1
          /\ Args(Calls("chat")) = ArticlesOf(Calls("get"), config.num_articles)
    /\ pc = "summarize" =>
          /\ Len(Calls("get")) = i
          /\ Len(Calls("chat")) =
                Len(ArticlesOf(SubSeq(Calls("get"), 1, i - 1), config.num_articles)) + j - 1
    /\ LoopDone =>
          /\ Len(Calls("get")) = Len(feeds)
          /\ Args(Calls("chat")) = ArticlesOf(Calls("get"), config.num_articles)

\* A run where calls of every kind failed: the probe (404), the first fetch of a
\* URL listed twice, both summarization calls, the post.  Seven calls were made.
C15_Witness ==
    /\ pc = "done"
    /\ feeds = <<UrlA, UrlA>>
    /\ ProbeOut = "ResponseError404"
    /\ Calls("get")[1].out.kind = "Timeout"
    /\ Len(Calls("chat")) = 2
    /\ Calls("chat")[1].out.kind = "ResponseError"
    /\ Calls("chat")[2].out.kind = "Exception"
    /\ Calls("post") # <<>>
    /\ Calls("post")[1].out = "ConnectionError"
    /\ Len(net) = 7

\* ------------------------------------------------------------------ C16
\* f"News for {formatted_date}:\n\n", what the narration starts with.
NarrationHead == TtsText(<<>>)
\* The narration posted, and what follows its head.
Sent == Calls("post")[1].arg
SentBody == SubSeq(Sent, Len(NarrationHead) + 1, Len(Sent))

HasPair(s, c) == \E p \in 1..(Len(s) - 1) : s[p] = c /\ s[p + 1] = c
\* The characters of s that are neither a heading mark, a line break nor a space.
Letters(s) == SelectSeq(s, LAMBDA c : c \notin {"#", "\n", " "})
RECURSIVE Concat(_)
Concat(ts) == IF ts = <<>> THEN <<>> ELSE Head(ts) \o Concat(Tail(ts))

\* A heading mark: a "#" that begins a line or follows one that does.
HasHeadingMark(t) == t # <<>> /\ (t[1] = "#" \/ \E p \in 1..(Len(t) - 1) : t[p] = "\n" /\ t[p + 1] = "#")

C16_WitnessHash ==
    /\ Calls("post") # <<>>
    /\ tts_summaries = <<<<"t", "#", "t">>>>
    /\ SentBody = <<"t", "t">>

\* ------------------------------------------------------------------ C17
\* C17: the model is pulled at most once, and only as the call that follows a
\* probe answered by ResponseError with status 404; after such a probe main()
\* goes to the pull and nowhere else (a user interrupt apart); a probe that
\* succeeds or fails otherwise is followed by no pull; after a pull that
\* succeeds the next call is the fetch of the first feed, not another probe.
C17_PullIffNotFound ==
    /\ Len(Calls("pull")) <= 1
    /\ \A k \in 1..Len(net) : net[k].op = "pull" => k = 2 /\ net[1] = Call("probe", <<>>, "ResponseError404")
    /\ ProbeOut = "ResponseError404" => Len(Calls("pull")) = 1 \/ pc \in {"pull", "interrupted"}
    /\ pc = "pull" <=> ProbeOut = "ResponseError404" /\ Calls("pull") = <<>> /\ pc # "interrupted"
    /\ ProbeOut \in {"ok", "ResponseError", "Exception"} => Calls("pull") = <<>>
    /\ PullOut = "ok" =>
          /\ Len(Calls("probe")) = 1
          /\ pc \notin {"ensure_model", "pull", "returned"}
          /\ Len(net) >= 3 => net[3].op = "get" /\ net[3].arg = feeds[1]
    /\ PullOut = "Exception" => pc = "returned" /\ Len(net) = 2

\* The probe answered 404, the model was pulled, and the run went through its
\* feed and ended: three calls, probe, pull, fetch.
C17_Witness ==
    /\ pc = "done"
    /\ Len(net) = 3
    /\ net[1] = Call("probe", <<>>, "ResponseError404")
    /\ net[2] = Call("pull", <<>>, "ok")
    /\ net[3].op = "get"

\* The probe failed with another status: main() returned without a pull.
C17_WitnessOtherError ==
    /\ pc = "returned"
    /\ net = <<Call("probe", <<>>, "ResponseError")>>

\* ------------------------------------------------------------------ C18
\* The feeds whose fetch gave no article in this run, in the order of the fetches.
RECURSIVE YieldedNothing(_, _)
YieldedNothing(gets, num) ==
    IF gets = <<>> THEN <<>>
    ELSE (IF Delivers(Head(gets).out, num) THEN <<>> ELSE <<Head(gets).arg>>)
             \o YieldedNothing(Tail(gets), num)

\* C18: from its rewriting on, the quarantine file holds the feeds that gave no
\* article in this run, in the order they were gone through, and nothing of
\* what it held before; it is empty when every feed gave an article.  So after
\* the run that follows a finished run, a feed the first run quarantined is in
\* neither of the two lists (nor was it read by the second run).
C18_QuarantineReplaced ==
    /\ Wrote("removed") =>
          removedFile = [exists |-> TRUE,
                         lines |-> YieldedNothing(Calls("get"), config.num_articles)]
    /\ before.run = 1 => before.quarantined = <<>>
    /\ before.run > 1 =>
          /\ before.removed.lines = before.quarantined
          /\ \A k \in 1..Len(before.quarantined) :
                /\ ~InSeq(before.quarantined[k], before.feeds.lines)
                /\ ~InSeq(before.quarantined[k], feeds)
                /\ ~InSeq(before.quarantined[k], feedsFile.lines)
                /\ Wrote("removed") => ~InSeq(before.quarantined[k], removedFile.lines)

\* The second of two runs is done: the first quarantined feed a, the second
\* read feed b alone and quarantined nothing, and the quarantine file is empty.
C18_Witness ==
    /\ pc = "done"
    /\ before.run = 2
    /\ before.quarantined = <<UrlA>>
    /\ before.removed.lines = <<UrlA>>
    /\ feeds = <<UrlB>>
    /\ feedsFile.lines = <<UrlB>>
    /\ removedFile = [exists |-> TRUE, lines |-> <<>>]

\* A first run that quarantined nothing: the file that held feed b is emptied.
C18_WitnessEmptied ==
    /\ pc = "done"
    /\ before.run = 1
    /\ before.removed.lines = <<UrlB>>
    /\ removed_feeds = <<>>
    /\ removedFile = [exists |-> TRUE, lines |-> <<>>]

\* ------------------------------------------------------------------ C19
\* The loop over the feeds has not gone through the whole list: no list read
\* yet, a feed not fetched yet, or an article of a fetched feed without its
\* summarization call.
FeedsLeft ==
    \/ feeds = <<>>
    \/ Len(Calls("get")) < Len(feeds)
    \/ Args(Calls("chat")) # ArticlesOf(Calls("get"), config.num_articles)

\* C19: as long as the loop over the feeds has not gone through the whole list,
\* the two feed lists are as the run found them and no digest or audio file of
\* this run exists, also when the run was ended there by a user interrupt (the
\* process then ends with status 0); a file is written only once the loop is
\* over, and the first one written is the active list.
C19_NoWriteDuringLoop ==
    /\ FeedsLeft => NothingWritten
    /\ pc \in {"ensure_model", "pull", "read_feeds", "fetch", "summarize", "returned", "exit1"}
          => NothingWritten
    /\ writes # <<>> => ~FeedsLeft /\ writes[1] = "feeds"
    /\ pc = "interrupted" /\ ~Wrote("digest") => ~digestFile.exists /\ ExitStatus(pc) = 0

\* A run of two feeds interrupted after the first feed was summarized: the
\* summary is lost, no file is written, the lists are as they were.
C19_Witness ==
    /\ pc = "interrupted"
    /\ Len(feeds) = 2
    /\ Len(Calls("get")) = 1
    /\ Len(summaries) = 1
    /\ NothingWritten
    /\ feedsFile = before.feeds
    /\ ExitStatus(pc) = 0

\* The last feed is being summarized and a feed is already to be quarantined:
\* the quarantine file still holds what the run found.
C19_WitnessLastFeed ==
    /\ pc = "summarize"
    /\ i = Len(feeds)
    /\ removed_feeds = <<UrlA>>
    /\ removedFile.lines = <<UrlB>>
    /\ writes = <<>>

====
